---- MODULE Spec2Model ----
(***************************************************************************)
(* Model of the dupr site's two rule engines:                              *)
(*   - teachings/models.py  TeachingPage.serve  (category-based access)    *)
(*   - tracker/forms.py, tracker/models.py, tracker/views.py               *)
(*     (practice log: form validation, write-time derivation, CRUD views)  *)
(*                                                                         *)
(* Python's None is the empty sequence <<>>; a present value x is <<x>>.   *)
(***************************************************************************)
EXTENDS Integers, Sequences, FiniteSets, TLC

VARIABLES
    request,         \* teachings: the last request served, [user, page_categories]
    response,        \* teachings: what TeachingPage.serve answered for it
    form_data,       \* forms: the data a LogEntryForm was last bound to
    form_result,     \* forms: what full validation of form_data produced
    userActivities,  \* tracker: rows of UserActivity
    logEntries,      \* tracker: rows of LogEntry
    nextUserActivityPk, \* tracker: next primary key of UserActivity
    nextLogEntryPk,  \* tracker: next primary key of LogEntry
    lastView,        \* tracker: the last view call and its outcome
    context,         \* tracker: the context the dashboard last rendered
    requests,        \* tracker: the add-practice requests and how far each got
    definitions      \* tracker: the ActivityDefinition snippets that exist

vars == <<request, response, form_data, form_result, userActivities, logEntries,
          nextUserActivityPk, nextLogEntryPk, lastView, context, requests,
          definitions>>

teachingVars == <<request, response>>
formVars == <<form_data, form_result>>
sideVars == <<context, requests, definitions>>
trackerVars == <<userActivities, logEntries, nextUserActivityPk, nextLogEntryPk, lastView,
                 context, requests, definitions>>

None == <<>>
Some(x) == <<x>>
IsNone(o) == o = <<>>
Val(o) == o[1]

-----------------------------------------------------------------------------
(* Bounds of the model.                                                    *)

NumCategories == 2        \* Category snippets that exist
MaxQuantity == 5          \* largest malas / hours value submitted to a form
MaxRawMinutes == 75       \* largest minutes value submitted to a form
MaxActivities == 1        \* UserActivity rows ever inserted
MaxLedgerEntries == 3     \* LogEntry rows of a ledger the dashboard sums
MaxTracked == 2           \* UserActivity rows stored when add-practice requests arrive
MaxRequests == 2          \* add-practice requests of one user and definition in flight
MaxEntries == 1           \* LogEntry rows ever inserted

-----------------------------------------------------------------------------
(* teachings/models.py                                                     *)

Categories == 1..NumCategories

\* request.user: AbstractUser flags plus accounts.User.categories
Viewers == [is_authenticated : BOOLEAN, is_staff : BOOLEAN, is_superuser : BOOLEAN,
            categories : SUBSET Categories]

\* mutants of serve
serve_subset(user, page_categories) ==
    IF page_categories = {} THEN "served"
    ELSE IF ~user.is_authenticated THEN "forbidden"
    ELSE IF user.is_superuser \/ user.is_staff THEN "served"
    ELSE IF page_categories \subseteq user.categories THEN "served"
    ELSE "forbidden"

serve_auth_first(user, page_categories) ==
    IF ~user.is_authenticated THEN "forbidden"
    ELSE IF page_categories = {} THEN "served"
    ELSE IF user.is_superuser \/ user.is_staff THEN "served"
    ELSE IF (user.categories \cap page_categories) # {} THEN "served"
    ELSE "forbidden"

serve_superuser_only(user, page_categories) ==
    IF page_categories = {} THEN "served"
    ELSE IF ~user.is_authenticated THEN "forbidden"
    ELSE IF user.is_superuser THEN "served"
    ELSE IF (user.categories \cap page_categories) # {} THEN "served"
    ELSE "forbidden"

serve_elevated_first(user, page_categories) ==
    IF page_categories = {} THEN "served"
    ELSE IF user.is_superuser \/ user.is_staff THEN "served"
    ELSE IF ~user.is_authenticated THEN "forbidden"
    ELSE IF (user.categories \cap page_categories) # {} THEN "served"
    ELSE "forbidden"

\* TeachingPage.serve: "served" is super().serve(...), "forbidden" the 403 page
serve(user, page_categories) ==
    IF page_categories = {} THEN "served"
    ELSE IF ~user.is_authenticated THEN "forbidden"
    ELSE IF user.is_superuser \/ user.is_staff THEN "served"
    ELSE IF (user.categories \cap page_categories) # {} THEN "served"
    ELSE "forbidden"

NoRequest == [user |-> [is_authenticated |-> FALSE, is_staff |-> FALSE,
                        is_superuser |-> FALSE, categories |-> {}],
              page_categories |-> {}]

TeachingInit ==
    /\ request = NoRequest
    /\ response = "none"

\* one HTTP request for a TeachingPage
Serve(user, page_categories) ==
    /\ request' = [user |-> user, page_categories |-> page_categories]
    /\ response' = serve(user, page_categories)
    /\ UNCHANGED <<formVars, trackerVars>>

ServeNext == \E user \in Viewers, page_categories \in SUBSET Categories :
                 Serve(user, page_categories)

-----------------------------------------------------------------------------
(* tracker/forms.py                                                        *)

MinValue == 0             \* min_value of the three IntegerFields
MaxMinutes == 59          \* max_value of time_submitted_minutes

\* forms.IntegerField(required=False, min_value=..., max_value=...).clean:
\* a blank input cleans to None; a value that fails a validator is an error
\* and leaves no entry in cleaned_data (cleaned_data.get(...) is then None)
IntegerField_clean(raw, min_value, max_value) ==
    IF IsNone(raw) THEN [value |-> None, errors |-> {}]
    ELSE IF Val(raw) < min_value THEN [value |-> None, errors |-> {"min_value"}]
    ELSE IF ~IsNone(max_value) /\ Val(raw) > Val(max_value)
         THEN [value |-> None, errors |-> {"max_value"}]
    ELSE [value |-> raw, errors |-> {}]

malas_submitted_clean(raw) == IntegerField_clean(raw, MinValue, None)
time_submitted_hours_clean(raw) == IntegerField_clean(raw, MinValue, None)
time_submitted_minutes_clean(raw) == IntegerField_clean(raw, MinValue, Some(MaxMinutes))

\* UserActivityChoiceField (a required ModelChoiceField) over the queryset that
\* LogEntryForm.__init__ installed; queryset is the set of selectable pks
user_activity_clean(raw, queryset) ==
    IF IsNone(raw) THEN [value |-> None, errors |-> {"required"}]
    ELSE IF Val(raw) \notin queryset THEN [value |-> None, errors |-> {"invalid_choice"}]
    ELSE [value |-> raw, errors |-> {}]

FieldErrors(field, codes) == {<<field, c>> : c \in codes}

\* mutants of LogEntryForm_clean
LogEntryForm_clean_no_minutes_default(cleaned_data) ==
    LET malas == cleaned_data.malas_submitted
        hours == cleaned_data.time_submitted_hours
        minutes == cleaned_data.time_submitted_minutes
        has_malas == ~IsNone(malas) /\ Val(malas) > 0
        has_hours == ~IsNone(hours) /\ Val(hours) > 0
        has_minutes == ~IsNone(minutes) /\ Val(minutes) > 0
    IN  IF ~(has_malas \/ has_hours \/ has_minutes)
        THEN [errors |-> {<<"__all__", "no_data_submitted">>}, cleaned_data |-> cleaned_data]
        ELSE
        LET out_of_range == ~IsNone(minutes) /\ (Val(minutes) < 0 \/ Val(minutes) > 59)
            cd1 == IF out_of_range
                   THEN [cleaned_data EXCEPT !.time_submitted_minutes = None]
                   ELSE cleaned_data
            cd3 == IF has_minutes /\ IsNone(hours)
                   THEN [cd1 EXCEPT !.time_submitted_hours = Some(0)]
                   ELSE cd1
        IN  [errors |-> IF out_of_range
                        THEN {<<"time_submitted_minutes", "between_0_and_59">>}
                        ELSE {},
             cleaned_data |-> cd3]

LogEntryForm_clean_no_hours_default(cleaned_data) ==
    LET malas == cleaned_data.malas_submitted
        hours == cleaned_data.time_submitted_hours
        minutes == cleaned_data.time_submitted_minutes
        has_malas == ~IsNone(malas) /\ Val(malas) > 0
        has_hours == ~IsNone(hours) /\ Val(hours) > 0
        has_minutes == ~IsNone(minutes) /\ Val(minutes) > 0
    IN  IF ~(has_malas \/ has_hours \/ has_minutes)
        THEN [errors |-> {<<"__all__", "no_data_submitted">>}, cleaned_data |-> cleaned_data]
        ELSE
        LET out_of_range == ~IsNone(minutes) /\ (Val(minutes) < 0 \/ Val(minutes) > 59)
            cd1 == IF out_of_range
                   THEN [cleaned_data EXCEPT !.time_submitted_minutes = None]
                   ELSE cleaned_data
            cd2 == IF has_hours /\ IsNone(minutes)
                   THEN [cd1 EXCEPT !.time_submitted_minutes = Some(0)]
                   ELSE cd1
        IN  [errors |-> IF out_of_range
                        THEN {<<"time_submitted_minutes", "between_0_and_59">>}
                        ELSE {},
             cleaned_data |-> cd2]

\* mutant of LogEntryForm_clean: a form recording nothing is let through
LogEntryForm_clean_accepts_nothing(cleaned_data) ==
    LET hours == cleaned_data.time_submitted_hours
        minutes == cleaned_data.time_submitted_minutes
        has_hours == ~IsNone(hours) /\ Val(hours) > 0
        has_minutes == ~IsNone(minutes) /\ Val(minutes) > 0
        out_of_range == ~IsNone(minutes) /\ (Val(minutes) < 0 \/ Val(minutes) > 59)
        cd1 == IF out_of_range
               THEN [cleaned_data EXCEPT !.time_submitted_minutes = None]
               ELSE cleaned_data
        cd2 == IF has_hours /\ IsNone(minutes)
               THEN [cd1 EXCEPT !.time_submitted_minutes = Some(0)]
               ELSE cd1
        cd3 == IF has_minutes /\ IsNone(hours)
               THEN [cd2 EXCEPT !.time_submitted_hours = Some(0)]
               ELSE cd2
    IN  [errors |-> IF out_of_range
                    THEN {<<"time_submitted_minutes", "between_0_and_59">>}
                    ELSE {},
         cleaned_data |-> cd3]

\* LogEntryForm.clean on the cleaned_data the fields left. The raised
\* ValidationError becomes the non-field ("__all__") error no_data_submitted;
\* add_error on a field also deletes that field's entry from cleaned_data.
LogEntryForm_clean(cleaned_data) ==
    LET malas == cleaned_data.malas_submitted
        hours == cleaned_data.time_submitted_hours
        minutes == cleaned_data.time_submitted_minutes
        has_malas == ~IsNone(malas) /\ Val(malas) > 0
        has_hours == ~IsNone(hours) /\ Val(hours) > 0
        has_minutes == ~IsNone(minutes) /\ Val(minutes) > 0
    IN  IF ~(has_malas \/ has_hours \/ has_minutes)
        THEN [errors |-> {<<"__all__", "no_data_submitted">>}, cleaned_data |-> cleaned_data]
        ELSE
        LET out_of_range == ~IsNone(minutes) /\ (Val(minutes) < 0 \/ Val(minutes) > 59)
            cd1 == IF out_of_range
                   THEN [cleaned_data EXCEPT !.time_submitted_minutes = None]
                   ELSE cleaned_data
            cd2 == IF has_hours /\ IsNone(minutes)
                   THEN [cd1 EXCEPT !.time_submitted_minutes = Some(0)]
                   ELSE cd1
            cd3 == IF has_minutes /\ IsNone(hours)
                   THEN [cd2 EXCEPT !.time_submitted_hours = Some(0)]
                   ELSE cd2
        IN  [errors |-> IF out_of_range
                        THEN {<<"time_submitted_minutes", "between_0_and_59">>}
                        ELSE {},
             cleaned_data |-> cd3]

\* mutant of LogEntryForm_full_clean: the fields' own errors are lost
LogEntryForm_full_clean_form_errors_only(data, queryset) ==
    LET ua == user_activity_clean(data.user_activity, queryset)
        m == malas_submitted_clean(data.malas_submitted)
        h == time_submitted_hours_clean(data.time_submitted_hours)
        mi == time_submitted_minutes_clean(data.time_submitted_minutes)
        cleaned == [user_activity |-> ua.value,
                    malas_submitted |-> m.value,
                    time_submitted_hours |-> h.value,
                    time_submitted_minutes |-> mi.value]
        c == LogEntryForm_clean(cleaned)
    IN  [bound |-> TRUE,
         errors |-> FieldErrors("user_activity", ua.errors) \cup c.errors,
         cleaned_data |-> c.cleaned_data]

\* form.is_valid() of a LogEntryForm bound to data: every field is cleaned,
\* then clean() runs on what the fields left (also when a field failed)
LogEntryForm_full_clean(data, queryset) ==
    LET ua == user_activity_clean(data.user_activity, queryset)
        m == malas_submitted_clean(data.malas_submitted)
        h == time_submitted_hours_clean(data.time_submitted_hours)
        mi == time_submitted_minutes_clean(data.time_submitted_minutes)
        cleaned == [user_activity |-> ua.value,
                    malas_submitted |-> m.value,
                    time_submitted_hours |-> h.value,
                    time_submitted_minutes |-> mi.value]
        field_errors == FieldErrors("user_activity", ua.errors)
                        \cup FieldErrors("malas_submitted", m.errors)
                        \cup FieldErrors("time_submitted_hours", h.errors)
                        \cup FieldErrors("time_submitted_minutes", mi.errors)
        c == LogEntryForm_clean(cleaned)
    IN  [bound |-> TRUE,
         errors |-> field_errors \cup c.errors,
         cleaned_data |-> c.cleaned_data]

is_valid(result) == result.bound /\ result.errors = {}

OptQuantity == {None} \cup {Some(n) : n \in (0 - 1)..MaxQuantity}
OptMinutes == {None} \cup {Some(n) : n \in (0 - 1)..MaxRawMinutes}

\* the pks a standalone form may select, and the pks submitted to it
FormQueryset == {1}
OptUserActivity == {None, Some(1), Some(2)}

FormInputs == [user_activity : OptUserActivity,
               malas_submitted : OptQuantity,
               time_submitted_hours : OptQuantity,
               time_submitted_minutes : OptMinutes]

UnboundData == [user_activity |-> None, malas_submitted |-> None,
                time_submitted_hours |-> None, time_submitted_minutes |-> None]
UnboundResult == [bound |-> FALSE, errors |-> {}, cleaned_data |-> UnboundData]

FormInit ==
    /\ form_data = UnboundData
    /\ form_result = UnboundResult

\* the data of one submission, not yet validated
FormSubmitted ==
    /\ form_data \in FormInputs
    /\ form_result = UnboundResult

\* form.is_valid() on the submitted data
Validate ==
    /\ ~form_result.bound
    /\ form_result' = LogEntryForm_full_clean(form_data, FormQueryset)
    /\ UNCHANGED <<form_data, teachingVars, trackerVars>>

ValidateNext == Validate

-----------------------------------------------------------------------------
(* tracker/models.py                                                       *)

DefaultUnitMultiplier == 1      \* ActivityDefinition.unit_multiplier default
AccumulationsMultiplier == 108  \* get_unit_multiplier, custom 'accumulations'
DefaultQuantity == 0            \* LogEntry.quantity_submitted default
MantrasPerMala == 108     \* the multiplier of the dashboard's totals

Users == {"u1", "u2"}
Anonymous == "anonymous"
ActivityTypes == {"accumulations", "daily-habits"}

\* The admin-managed ActivityDefinition snippets: d1 converts malas to mantras,
\* d2 keeps the field's default multiplier
DefinitionIds == {"d1", "d2"}
ActivityDefinition(d) ==
    IF d = "d1"
    THEN [activity_type |-> "accumulations", unit_multiplier |-> AccumulationsMultiplier,
          is_active |-> TRUE]
    ELSE [activity_type |-> "daily-habits", unit_multiplier |-> DefaultUnitMultiplier,
          is_active |-> TRUE]

\* What the UserActivity rows of this model track: a predefined activity under
\* its own type, with no custom name (UserActivity.clean)
Trackables ==
    {[definition |-> Some(d), custom_name |-> "",
      activity_type |-> Some(ActivityDefinition(d).activity_type)] : d \in DefinitionIds}

\* mutant of unique_together: the table has no uniqueness constraint
unique_together_unenforced(rows, row) == TRUE

\* UserActivity.Meta.unique_together, as the database enforces it on insert
\* (rows whose definition is NULL never collide on ['user', 'definition'])
unique_together(rows, row) ==
    /\ \A r \in rows :
           ~(/\ r.user = row.user
             /\ ~IsNone(row.definition)
             /\ r.definition = row.definition)
    /\ \A r \in rows :
           ~(/\ r.user = row.user
             /\ r.activity_type = row.activity_type
             /\ r.custom_name = row.custom_name)

UserActivityByPk(pk) == CHOOSE ua \in userActivities : ua.pk = pk

\* UserActivity.get_unit_multiplier
get_unit_multiplier(ua) ==
    IF ~IsNone(ua.definition) THEN ActivityDefinition(Val(ua.definition)).unit_multiplier
    ELSE IF ua.activity_type = Some("accumulations") THEN AccumulationsMultiplier
    ELSE DefaultUnitMultiplier

\* mutant of LogEntry_save
LogEntry_save_keep_user(instance) ==
    LET ua == UserActivityByPk(instance.user_activity)
        quantity == IF IsNone(instance.malas_submitted) THEN DefaultQuantity
                    ELSE Val(instance.malas_submitted)
    IN  [instance EXCEPT
            !.user = IF IsNone(instance.user) THEN Some(ua.user) ELSE instance.user,
            !.calculated_total = quantity * get_unit_multiplier(ua)]

\* LogEntry.save: the row that super().save() writes. The submitted quantity
\* is the entry's malas count (the field's default when none was given).
LogEntry_save(instance) ==
    LET ua == UserActivityByPk(instance.user_activity)
        quantity == IF IsNone(instance.malas_submitted) THEN DefaultQuantity
                    ELSE Val(instance.malas_submitted)
    IN  [instance EXCEPT
            !.user = Some(ua.user),
            !.calculated_total = quantity * get_unit_multiplier(ua)]

LogEntryByPk(pk) == CHOOSE e \in logEntries : e.pk = pk

NoView == [view |-> "none", user |-> Anonymous, status |-> "none", errors |-> {},
           data |-> UnboundData]

NoContext == [user |-> Anonymous, activity_summaries |-> {}]

\* per user and definition, the add-practice requests whose form was found
\* valid and whose insert has not run yet
NoRequests == [r \in Users \X DefinitionIds |-> 0]

TrackerInit ==
    /\ userActivities = {}
    /\ logEntries = {}
    /\ nextUserActivityPk = 1
    /\ nextLogEntryPk = 1
    /\ lastView = NoView
    /\ context = NoContext
    /\ requests = NoRequests
    /\ definitions = DefinitionIds

\* UserActivity.objects.create(...) of a row that names its activity type
UserActivity_create(user, trackable) ==
    LET row == [pk |-> nextUserActivityPk, user |-> user,
                definition |-> trackable.definition,
                custom_name |-> trackable.custom_name,
                activity_type |-> trackable.activity_type,
                is_active |-> TRUE]
    IN  /\ nextUserActivityPk <= MaxActivities
        /\ unique_together(userActivities, row)
        /\ userActivities' = userActivities \cup {row}
        /\ nextUserActivityPk' = nextUserActivityPk + 1
        /\ UNCHANGED <<logEntries, nextLogEntryPk, lastView, teachingVars, formVars, sideVars>>

\* UserActivity.is_active is flipped (archive / unarchive)
SetIsActive(pk, flag) ==
    /\ \E ua \in userActivities : ua.pk = pk /\ ua.is_active # flag
    /\ userActivities' = {IF ua.pk = pk THEN [ua EXCEPT !.is_active = flag] ELSE ua :
                             ua \in userActivities}
    /\ UNCHANGED <<logEntries, nextUserActivityPk, nextLogEntryPk, lastView,
                   teachingVars, formVars, sideVars>>

\* mutant of LogEntry_on_delete: the entries of the deleted practice stay
LogEntry_on_delete_keep(entries, pk) == entries

\* LogEntry.user_activity, on_delete=CASCADE: what is left of the entries when
\* the UserActivity with this pk is deleted
LogEntry_on_delete(entries, pk) == {e \in entries : e.user_activity # pk}

\* UserActivity.delete()
UserActivity_delete(pk) ==
    /\ \E ua \in userActivities : ua.pk = pk
    /\ userActivities' = {ua \in userActivities : ua.pk # pk}
    /\ logEntries' = LogEntry_on_delete(logEntries, pk)
    /\ UNCHANGED <<nextUserActivityPk, nextLogEntryPk, lastView,
                   teachingVars, formVars, sideVars>>

\* mutant of UserActivity_definition_on_delete: on_delete=CASCADE
UserActivity_definition_on_delete_cascade(rows, d) ==
    {ua \in rows : ua.definition # Some(d)}

\* UserActivity.definition, on_delete=SET_NULL: what becomes of the rows when
\* the ActivityDefinition d is deleted
UserActivity_definition_on_delete(rows, d) ==
    {IF ua.definition = Some(d) THEN [ua EXCEPT !.definition = None] ELSE ua :
         ua \in rows}

\* ActivityDefinition.delete(), by an admin in the snippets UI
ActivityDefinition_delete(d) ==
    /\ d \in definitions
    /\ definitions' = definitions \ {d}
    /\ userActivities' = UserActivity_definition_on_delete(userActivities, d)
    /\ logEntries' = {e \in logEntries :
                         \E ua \in userActivities' : ua.pk = e.user_activity}
    /\ UNCHANGED <<nextUserActivityPk, nextLogEntryPk, lastView, context, requests,
                   teachingVars, formVars>>

-----------------------------------------------------------------------------
(* tracker/views.py                                                        *)

\* What the tracker views are sent in a POST: a practice pk that may or may not
\* exist, and the quantities of the cases of tracker/forms.py
SubmittedQuantities ==
    { [malas_submitted |-> Some(5), time_submitted_hours |-> None,
       time_submitted_minutes |-> None],
      [malas_submitted |-> None, time_submitted_hours |-> Some(1),
       time_submitted_minutes |-> None],
      [malas_submitted |-> Some(2), time_submitted_hours |-> None,
       time_submitted_minutes |-> Some(75)],
      [malas_submitted |-> Some(0), time_submitted_hours |-> Some(0),
       time_submitted_minutes |-> Some(0)] }

PostData ==
    {[user_activity |-> Some(pk),
      malas_submitted |-> q.malas_submitted,
      time_submitted_hours |-> q.time_submitted_hours,
      time_submitted_minutes |-> q.time_submitted_minutes] :
        pk \in 1..MaxActivities, q \in SubmittedQuantities}

\* mutant of LogEntryForm_queryset: the field's declared queryset, every practice
LogEntryForm_queryset_any_practice(user) == {ua.pk : ua \in userActivities}

\* LogEntryForm.__init__: the practices the form lets this user log for
LogEntryForm_queryset(user) ==
    {ua.pk : ua \in {x \in userActivities : x.user = user /\ x.is_active}}

\* construct_instance: the form's cleaned values written onto the instance
construct_instance(instance, cleaned_data) ==
    [instance EXCEPT
        !.user_activity = Val(cleaned_data.user_activity),
        !.malas_submitted = cleaned_data.malas_submitted,
        !.time_submitted_hours = cleaned_data.time_submitted_hours,
        !.time_submitted_minutes = cleaned_data.time_submitted_minutes]

\* LogEntry(): a fresh instance, no owner yet. The three quantities are the
\* fields LogEntryForm.Meta.fields lists and the dashboard sums; each may be NULL.
NewLogEntry(pk) ==
    [pk |-> pk, user_activity |-> 0, user |-> None, malas_submitted |-> None,
     time_submitted_hours |-> None, time_submitted_minutes |-> None,
     calculated_total |-> 0]

\* LoginRequiredMixin.dispatch for an anonymous request: handle_no_permission
\* redirects to login, or answers 403 in the views that set raise_exception
\* (UserOwnsObjectMixin); the submitted data is never bound to a form
LoginRequired(view) ==
    /\ lastView' = [view |-> view, user |-> Anonymous,
                    status |-> IF view \in {"logentry-edit", "logentry-delete"}
                               THEN "403" ELSE "login_redirect",
                    errors |-> {}, data |-> UnboundData]
    /\ UNCHANGED <<userActivities, logEntries, nextUserActivityPk, nextLogEntryPk,
                   teachingVars, formVars, sideVars>>

\* LogEntryCreateView.post: form_valid saves the new entry, form_invalid
\* re-renders the dashboard with the bound form's errors
LogEntryCreateView_post(user, data) ==
    IF user = Anonymous THEN LoginRequired("logentry-add")
    ELSE
    LET form == LogEntryForm_full_clean(data, LogEntryForm_queryset(user))
    IN  IF is_valid(form)
        THEN /\ nextLogEntryPk <= MaxEntries
             /\ logEntries' = logEntries \cup
                    {LogEntry_save(construct_instance(NewLogEntry(nextLogEntryPk),
                                                      form.cleaned_data))}
             /\ nextLogEntryPk' = nextLogEntryPk + 1
             /\ lastView' = [view |-> "logentry-add", user |-> user, status |-> "saved",
                             errors |-> {}, data |-> data]
             /\ UNCHANGED <<userActivities, nextUserActivityPk, teachingVars, formVars, sideVars>>
        ELSE /\ lastView' = [view |-> "logentry-add", user |-> user, status |-> "invalid",
                             errors |-> form.errors, data |-> data]
             /\ UNCHANGED <<userActivities, logEntries, nextUserActivityPk,
                            nextLogEntryPk, teachingVars, formVars, sideVars>>

\* mutant of test_func: any logged-in user passes
test_func_any_user(obj, user) == TRUE

\* UserOwnsObjectMixin.test_func
test_func(obj, user) == obj.user = Some(user)

\* LogEntryUpdateView.post on an existing entry (an unknown pk is a 404)
LogEntryUpdateView_post(user, pk, data) ==
    IF user = Anonymous THEN LoginRequired("logentry-edit")
    ELSE
    /\ \E e \in logEntries : e.pk = pk
    /\ LET obj == LogEntryByPk(pk)
           form == LogEntryForm_full_clean(data, LogEntryForm_queryset(user))
       IN  IF ~test_func(obj, user)
           THEN /\ lastView' = [view |-> "logentry-edit", user |-> user, status |-> "403", errors |-> {}, data |-> UnboundData]
                /\ UNCHANGED <<userActivities, logEntries, nextUserActivityPk,
                               nextLogEntryPk, teachingVars, formVars, sideVars>>
           ELSE IF is_valid(form)
           THEN /\ logEntries' = (logEntries \ {obj}) \cup
                       {LogEntry_save(construct_instance(obj, form.cleaned_data))}
                /\ lastView' = [view |-> "logentry-edit", user |-> user, status |-> "saved", errors |-> {}, data |-> data]
                /\ UNCHANGED <<userActivities, nextUserActivityPk, nextLogEntryPk,
                               teachingVars, formVars, sideVars>>
           ELSE /\ lastView' = [view |-> "logentry-edit", user |-> user, status |-> "invalid", errors |-> form.errors,
                                data |-> data]
                /\ UNCHANGED <<userActivities, logEntries, nextUserActivityPk,
                               nextLogEntryPk, teachingVars, formVars, sideVars>>

\* LogEntryDeleteView.post on an existing entry
LogEntryDeleteView_post(user, pk) ==
    IF user = Anonymous THEN LoginRequired("logentry-delete")
    ELSE
    /\ \E e \in logEntries : e.pk = pk
    /\ LET obj == LogEntryByPk(pk)
       IN  IF ~test_func(obj, user)
           THEN /\ lastView' = [view |-> "logentry-delete", user |-> user, status |-> "403", errors |-> {}, data |-> UnboundData]
                /\ UNCHANGED <<userActivities, logEntries, nextUserActivityPk,
                               nextLogEntryPk, teachingVars, formVars, sideVars>>
           ELSE /\ logEntries' = logEntries \ {obj}
                /\ lastView' = [view |-> "logentry-delete", user |-> user, status |-> "deleted", errors |-> {}, data |-> UnboundData]
                /\ UNCHANGED <<userActivities, nextUserActivityPk, nextLogEntryPk,
                               teachingVars, formVars, sideVars>>

Requesters == Users \cup {Anonymous}

TrackerNext ==
    \/ \E user \in Users, trackable \in Trackables : UserActivity_create(user, trackable)
    \/ \E pk \in 1..MaxActivities, flag \in BOOLEAN : SetIsActive(pk, flag)
    \/ \E user \in Users, data \in PostData : LogEntryCreateView_post(user, data)
    \/ LogEntryCreateView_post(Anonymous, UnboundData)
    \/ \E user \in Users, pk \in 1..MaxEntries, data \in PostData :
           LogEntryUpdateView_post(user, pk, data)
    \/ \E pk \in 1..MaxEntries : LogEntryUpdateView_post(Anonymous, pk, UnboundData)
    \/ \E user \in Requesters, pk \in 1..MaxEntries : LogEntryDeleteView_post(user, pk)

-----------------------------------------------------------------------------
(* tracker/views.py: DashboardView                                         *)

\* mutant of Sum: a NULL makes the whole sum NULL, as SQL's + does
RECURSIVE Sum_null_propagating(_, _)
Sum_null_propagating(logs, field) ==
    IF logs = {} THEN None
    ELSE LET e == CHOOSE x \in logs : TRUE
             rest == Sum_null_propagating(logs \ {e}, field)
         IN  IF IsNone(e[field]) THEN None
             ELSE IF logs = {e} THEN e[field]
             ELSE IF IsNone(rest) THEN None
             ELSE Some(Val(e[field]) + Val(rest))

\* Sum('<field>') over a queryset: NULLs are skipped, and the sum of no value
\* at all is NULL
RECURSIVE Sum(_, _)
Sum(logs, field) ==
    IF logs = {} THEN None
    ELSE LET e == CHOOSE x \in logs : TRUE
             rest == Sum(logs \ {e}, field)
         IN  IF IsNone(e[field]) THEN rest
             ELSE IF IsNone(rest) THEN e[field]
             ELSE Some(Val(e[field]) + Val(rest))

\* Coalesce(expression, default)
Coalesce(value, default) == IF IsNone(value) THEN default ELSE Val(value)

\* mutant of activity_summary: the minutes are shown as summed, not carried
activity_summary_minutes_uncarried(ua) ==
    LET logs == {e \in logEntries : e.user_activity = ua.pk}
        total_malas_submitted == Coalesce(Sum(logs, "malas_submitted"), 0)
    IN  [user_activity |-> ua.pk,
         total_malas_submitted |-> total_malas_submitted,
         total_mantras |-> total_malas_submitted * MantrasPerMala,
         total_practice_hours |-> Coalesce(Sum(logs, "time_submitted_hours"), 0),
         total_practice_minutes |-> Coalesce(Sum(logs, "time_submitted_minutes"), 0),
         has_entries |-> logs # {}]

\* the body of the summary loop of DashboardView.get_context_data: the totals
\* of one practice over the entries logged for it
activity_summary(ua) ==
    LET logs == {e \in logEntries : e.user_activity = ua.pk}
        total_malas_submitted == Coalesce(Sum(logs, "malas_submitted"), 0)
        total_mantras == total_malas_submitted * MantrasPerMala
        total_hours == Coalesce(Sum(logs, "time_submitted_hours"), 0)
        total_minutes_from_min_field == Coalesce(Sum(logs, "time_submitted_minutes"), 0)
        grand_total_minutes == (total_hours * 60) + total_minutes_from_min_field
    IN  [user_activity |-> ua.pk,
         total_malas_submitted |-> total_malas_submitted,
         total_mantras |-> total_mantras,
         total_practice_hours |-> grand_total_minutes \div 60,
         total_practice_minutes |-> grand_total_minutes % 60,
         has_entries |-> logs # {}]

\* mutant of DashboardView_get_context_data: archived practices are summarised too
DashboardView_get_context_data_all(user) ==
    [user |-> user,
     activity_summaries |->
         {activity_summary(ua) : ua \in {x \in userActivities : x.user = user}}]

\* DashboardView.get_context_data: one summary per active practice of the user
DashboardView_get_context_data(user) ==
    [user |-> user,
     activity_summaries |->
         {activity_summary(ua) :
              ua \in {x \in userActivities : x.user = user /\ x.is_active}}]

\* DashboardView.get
DashboardView_get(user) ==
    IF user = Anonymous THEN LoginRequired("dashboard")
    ELSE IF \E ua \in userActivities :
                ua.user = user /\ ua.is_active /\ IsNone(ua.definition)
    THEN \* ua.definition.get_practice_type_display() on a practice whose
         \* definition is None raises AttributeError
         /\ lastView' = [view |-> "dashboard", user |-> user, status |-> "500",
                         errors |-> {}, data |-> UnboundData]
         /\ UNCHANGED <<userActivities, logEntries, nextUserActivityPk, nextLogEntryPk,
                        teachingVars, formVars, sideVars>>
    ELSE /\ context' = DashboardView_get_context_data(user)
         /\ lastView' = [view |-> "dashboard", user |-> user, status |-> "rendered",
                         errors |-> {}, data |-> UnboundData]
         /\ UNCHANGED <<userActivities, logEntries, nextUserActivityPk, nextLogEntryPk,
                        requests, definitions, teachingVars, formVars>>

\* A ledger the views have filled: user u1 tracks both definitions and has
\* logged up to MaxLedgerEntries entries, each one a submission that
\* LogEntryCreateView accepted
LedgerPractices ==
    {[pk |-> 1, user |-> "u1", definition |-> Some("d1"), custom_name |-> "",
      activity_type |-> Some(ActivityDefinition("d1").activity_type),
      is_active |-> TRUE],
     [pk |-> 2, user |-> "u1", definition |-> Some("d2"), custom_name |-> "",
      activity_type |-> Some(ActivityDefinition("d2").activity_type),
      is_active |-> TRUE]}

LedgerQuantities ==
    { [malas_submitted |-> Some(2), time_submitted_hours |-> None,
       time_submitted_minutes |-> None],
      [malas_submitted |-> None, time_submitted_hours |-> Some(1),
       time_submitted_minutes |-> Some(45)],
      [malas_submitted |-> Some(3), time_submitted_hours |-> Some(0),
       time_submitted_minutes |-> Some(20)] }

LedgerPostData ==
    {[user_activity |-> Some(pk),
      malas_submitted |-> q.malas_submitted,
      time_submitted_hours |-> q.time_submitted_hours,
      time_submitted_minutes |-> q.time_submitted_minutes] :
        pk \in {ua.pk : ua \in LedgerPractices}, q \in LedgerQuantities}

LedgerInit ==
    /\ userActivities = LedgerPractices
    /\ nextUserActivityPk = 3
    /\ \E n \in 0..MaxLedgerEntries :
         \E posted \in [1..n -> LedgerPostData] :
           /\ \A pk \in 1..n :
                  is_valid(LogEntryForm_full_clean(posted[pk], LogEntryForm_queryset("u1")))
           /\ logEntries =
                  {LogEntry_save(construct_instance(
                       NewLogEntry(pk),
                       LogEntryForm_full_clean(posted[pk],
                                               LogEntryForm_queryset("u1")).cleaned_data)) :
                       pk \in 1..n}
           /\ nextLogEntryPk = n + 1
    /\ lastView = NoView
    /\ context = NoContext
    /\ requests = NoRequests
    /\ definitions = DefinitionIds

LedgerNext ==
    \/ \E user \in Requesters : DashboardView_get(user)
    \/ \E ua \in userActivities : SetIsActive(ua.pk, ~ua.is_active)
    \/ \E ua \in userActivities : UserActivity_delete(ua.pk)
    \/ \E d \in DefinitionIds : ActivityDefinition_delete(d)

-----------------------------------------------------------------------------
(* tracker/views.py: UserActivityAddPracticeView                           *)

\* What the database answers to the INSERT of a UserActivity row: the row is
\* refused when activity_type, a NOT NULL column, has no value, and when it
\* collides with a stored row on a unique_together constraint
UserActivity_insert(rows, row) ==
    IF IsNone(row.activity_type) THEN "not_null"
    ELSE IF ~unique_together(rows, row) THEN "unique"
    ELSE "ok"

\* the queryset post() gives the form's definition field: the active
\* definitions the user has no UserActivity for, archived ones included
PracticeSelectForm_queryset(user) ==
    LET tracked_definition_ids ==
            {Val(ua.definition) :
                 ua \in {x \in userActivities : x.user = user /\ ~IsNone(x.definition)}}
    IN  {d \in definitions : ActivityDefinition(d).is_active} \ tracked_definition_ids

\* the queryset DashboardView.get_context_data gives practice_select_form:
\* the active definitions left after excluding those of user_activities, the
\* user's active practices (a NULL among the excluded ids leaves nothing)
DashboardView_practice_select_form_queryset(user) ==
    LET user_activities == {ua \in userActivities : ua.user = user /\ ua.is_active}
    IN  IF \E ua \in user_activities : IsNone(ua.definition)
        THEN {}
        ELSE {d \in definitions : ActivityDefinition(d).is_active}
                 \ {Val(ua.definition) : ua \in user_activities}

\* UserActivityAddPracticeView.post up to form.is_valid(): an invalid choice is
\* answered with the form's errors at once, a valid one goes on to the insert
UserActivityAddPracticeView_post(user, definition) ==
    IF user = Anonymous THEN LoginRequired("practice-add")
    ELSE IF definition \in PracticeSelectForm_queryset(user)
    THEN /\ requests[<<user, definition>>] < MaxRequests
         /\ requests' = [requests EXCEPT ![<<user, definition>>] = @ + 1]
         /\ UNCHANGED <<userActivities, logEntries, nextUserActivityPk, nextLogEntryPk,
                        lastView, context, definitions, teachingVars, formVars>>
    ELSE /\ lastView' = [view |-> "practice-add", user |-> user, status |-> "error",
                         errors |-> {<<"definition", "invalid_choice">>},
                         data |-> [definition |-> Some(definition)]]
         /\ UNCHANGED <<userActivities, logEntries, nextUserActivityPk, nextLogEntryPk,
                        teachingVars, formVars, sideVars>>

\* the rest of post() for a request whose form was valid:
\* UserActivity.objects.create(user, definition, is_active=True) and the
\* message that answers its outcome
UserActivityAddPracticeView_create(user, definition) ==
    LET row == [pk |-> nextUserActivityPk, user |-> user,
                definition |-> Some(definition), custom_name |-> "",
                activity_type |-> None, is_active |-> TRUE]
        answer == UserActivity_insert(userActivities, row)
    IN  /\ requests[<<user, definition>>] > 0
        /\ requests' = [requests EXCEPT ![<<user, definition>>] = @ - 1]
        /\ IF answer = "ok"
           THEN /\ userActivities' = userActivities \cup {row}
                /\ nextUserActivityPk' = nextUserActivityPk + 1
                /\ lastView' = [view |-> "practice-add", user |-> user,
                                status |-> "success", errors |-> {},
                                data |-> [definition |-> Some(definition)]]
           ELSE /\ lastView' = [view |-> "practice-add", user |-> user,
                                status |-> "warning_already_tracking",
                                errors |-> {<<"IntegrityError", answer>>},
                                data |-> [definition |-> Some(definition)]]
                /\ UNCHANGED <<userActivities, nextUserActivityPk>>
        /\ UNCHANGED <<logEntries, nextLogEntryPk, context, definitions,
                       teachingVars, formVars>>

\* The UserActivity tables that creating and archiving rows leads to
TrackedTables ==
    UNION {
      { {[pk |-> pk, user |-> made[pk][1], definition |-> made[pk][2].definition,
          custom_name |-> made[pk][2].custom_name,
          activity_type |-> made[pk][2].activity_type,
          is_active |-> made[pk][3]] : pk \in 1..n} :
        made \in [1..n -> Users \X Trackables \X BOOLEAN] } :
      n \in 0..MaxTracked }

\* every row of the table got past the constraints when it was inserted
Insertable(rows) ==
    \A row \in rows :
        UserActivity_insert({r \in rows : r.pk < row.pk}, row) = "ok"

AddPracticeInit ==
    /\ userActivities \in {rows \in TrackedTables : Insertable(rows)}
    /\ nextUserActivityPk = Cardinality(userActivities) + 1
    /\ logEntries = {}
    /\ nextLogEntryPk = 1
    /\ lastView = NoView
    /\ context = NoContext
    /\ requests = NoRequests
    /\ definitions = DefinitionIds

AddPracticeNext ==
    \/ \E user \in Requesters, definition \in DefinitionIds :
           UserActivityAddPracticeView_post(user, definition)
    \/ \E user \in Users, definition \in DefinitionIds :
           UserActivityAddPracticeView_create(user, definition)
    \/ \E user \in Users, trackable \in Trackables : UserActivity_create(user, trackable)

-----------------------------------------------------------------------------
(* tracker/views.py: LogEntryHistoryView, and two users side by side       *)

\* the history without the filter on the requesting user
LogEntryHistoryView_get_queryset_all(user) == logEntries

\* LogEntryHistoryView.get_queryset
LogEntryHistoryView_get_queryset(user) == {e \in logEntries : e.user = Some(user)}

\* LogEntryHistoryView.get
LogEntryHistoryView_get(user) ==
    IF user = Anonymous THEN LoginRequired("logentry-history")
    ELSE /\ lastView' = [view |-> "logentry-history", user |-> user, status |-> "listed",
                         errors |-> {}, data |-> UnboundData]
         /\ UNCHANGED <<userActivities, logEntries, nextUserActivityPk, nextLogEntryPk,
                        teachingVars, formVars, sideVars>>

\* Two users who each track the same definition
ViewerPractices ==
    {[pk |-> 1, user |-> "u1", definition |-> Some("d1"), custom_name |-> "",
      activity_type |-> Some(ActivityDefinition("d1").activity_type),
      is_active |-> TRUE],
     [pk |-> 2, user |-> "u2", definition |-> Some("d1"), custom_name |-> "",
      activity_type |-> Some(ActivityDefinition("d1").activity_type),
      is_active |-> TRUE]}

\* what the two send to the log entry views: either practice, the quantities
\* of SubmittedQuantities
ViewerPostData ==
    {[user_activity |-> Some(pk),
      malas_submitted |-> q.malas_submitted,
      time_submitted_hours |-> q.time_submitted_hours,
      time_submitted_minutes |-> q.time_submitted_minutes] :
        pk \in {ua.pk : ua \in ViewerPractices}, q \in SubmittedQuantities}

ViewersInit ==
    /\ userActivities = ViewerPractices
    /\ nextUserActivityPk = 3
    /\ logEntries = {}
    /\ nextLogEntryPk = 1
    /\ lastView = NoView
    /\ context = NoContext
    /\ requests = NoRequests
    /\ definitions = DefinitionIds

\* every request a viewer can send to the tracker
ViewersNext ==
    \/ \E user \in Users, data \in ViewerPostData : LogEntryCreateView_post(user, data)
    \/ LogEntryCreateView_post(Anonymous, UnboundData)
    \/ \E user \in Users, pk \in 1..MaxEntries, data \in ViewerPostData :
           LogEntryUpdateView_post(user, pk, data)
    \/ \E pk \in 1..MaxEntries : LogEntryUpdateView_post(Anonymous, pk, UnboundData)
    \/ \E user \in Requesters, pk \in 1..MaxEntries : LogEntryDeleteView_post(user, pk)
    \/ \E user \in Requesters : LogEntryHistoryView_get(user)
    \/ \E user \in Requesters, definition \in DefinitionIds :
           UserActivityAddPracticeView_post(user, definition)
    \/ \E user \in Users, definition \in DefinitionIds :
           UserActivityAddPracticeView_create(user, definition)

-----------------------------------------------------------------------------
(* Specifications.                                                         *)

Init == TeachingInit /\ FormInit /\ TrackerInit

Next == ServeNext \/ ValidateNext \/ TrackerNext \/ LedgerNext \/ AddPracticeNext
            \/ ViewersNext

\* the whole site
Spec == Init /\ [][Next]_vars

\* the access rule alone, the form alone, the log entry views alone: the three
\* share no state, so each is explored on its own
SpecServe == Init /\ [][ServeNext]_vars
ValidateInit == TeachingInit /\ FormSubmitted /\ TrackerInit
SpecValidate == ValidateInit /\ [][ValidateNext]_vars
SpecTracker == Init /\ [][TrackerNext]_vars

\* the dashboard over a filled ledger
LedgerSpecInit == TeachingInit /\ FormInit /\ LedgerInit
SpecLedger == LedgerSpecInit /\ [][LedgerNext]_vars

\* add-practice requests, interleaved between their check and their insert
AddPracticeSpecInit == TeachingInit /\ FormInit /\ AddPracticeInit
SpecAddPractice == AddPracticeSpecInit /\ [][AddPracticeNext]_vars

\* the requests of two users who both have a practice, interleaved
ViewersSpecInit == TeachingInit /\ FormInit /\ ViewersInit
SpecViewers == ViewersSpecInit /\ [][ViewersNext]_vars

-----------------------------------------------------------------------------
(* Properties of TeachingPage.serve, under SpecServe.                      *)

Served == response # "none"
Elevated(user) == user.is_staff \/ user.is_superuser

\* C1: an authenticated viewer who is neither staff nor superuser is served a
\* page with categories exactly when the viewer's categories and the page's
\* share a category; with no categories such a viewer is refused every such page.
C1_OverlapDecides ==
    (/\ Served
     /\ request.user.is_authenticated
     /\ ~Elevated(request.user)
     /\ request.page_categories # {})
    => /\ (response = "served")
            <=> (request.user.categories \cap request.page_categories # {})
       /\ request.user.categories = {} => response = "forbidden"

C1_Witness ==
    /\ response = "served"
    /\ request.user.is_authenticated
    /\ ~Elevated(request.user)
    /\ request.page_categories # {}
    /\ request.user.categories \cap request.page_categories # {}
    /\ ~(request.page_categories \subseteq request.user.categories)

\* C2: a page without categories is served to every viewer, authenticated or not.
C2_PublicPageServed ==
    (Served /\ request.page_categories = {}) => response = "served"

C2_Witness ==
    /\ response = "served"
    /\ request.page_categories = {}
    /\ ~request.user.is_authenticated
    /\ request.user.categories = {}

\* C3: an authenticated staff or superuser viewer is served every page, with or
\* without a category in common with it.
C3_ElevatedServed ==
    (Served /\ request.user.is_authenticated /\ Elevated(request.user))
    => response = "served"

C3_Witness ==
    /\ response = "served"
    /\ request.user.is_authenticated
    /\ request.user.is_staff
    /\ ~request.user.is_superuser
    /\ request.user.categories = {}
    /\ request.page_categories # {}

\* C4: an unauthenticated viewer is refused every page that has categories,
\* whatever staff / superuser flag or categories the viewer carries.
C4_AnonymousRefused ==
    (Served /\ request.page_categories # {} /\ ~request.user.is_authenticated)
    => response = "forbidden"

C4_Witness ==
    /\ response = "forbidden"
    /\ ~request.user.is_authenticated
    /\ Elevated(request.user)
    /\ request.user.categories \cap request.page_categories # {}

-----------------------------------------------------------------------------
(* Properties of LogEntryForm validation, under SpecValidate.              *)

Positive(raw) == ~IsNone(raw) /\ Val(raw) > 0
NoDataSubmitted == <<"__all__", "no_data_submitted">>
MinutesErrors(errors) == {e \in errors : e[1] = "time_submitted_minutes"}

\* C6: the form reports no_data_submitted exactly when none of the submitted
\* malas, hours, minutes is a positive value.
C6_NoDataIffNothingPositive ==
    form_result.bound
    => ((NoDataSubmitted \in form_result.errors)
            <=> ~(\/ Positive(form_data.malas_submitted)
                  \/ Positive(form_data.time_submitted_hours)
                  \/ Positive(form_data.time_submitted_minutes)))

\* C7 as stated: whenever validation succeeds the returned entry has hours and
\* minutes both defined (malas=5 alone comes back with hours=0, minutes=0).
C7_HoursMinutesAlwaysDefined ==
    is_valid(form_result)
    => /\ ~IsNone(form_result.cleaned_data.time_submitted_hours)
       /\ ~IsNone(form_result.cleaned_data.time_submitted_minutes)

\* C7 as amended: whenever validation succeeds and a submitted time component is
\* positive, the returned entry has hours and minutes both defined; a submission
\* of positive malas with no time component is accepted and returned with hours
\* and minutes still absent.
C7_TimeDefinedWhenTimeGiven ==
    form_result.bound
    => /\ (/\ is_valid(form_result)
           /\ \/ Positive(form_data.time_submitted_hours)
              \/ Positive(form_data.time_submitted_minutes))
          => /\ ~IsNone(form_result.cleaned_data.time_submitted_hours)
             /\ ~IsNone(form_result.cleaned_data.time_submitted_minutes)
       /\ (/\ ~IsNone(form_data.user_activity)
           /\ Val(form_data.user_activity) \in FormQueryset
           /\ Positive(form_data.malas_submitted)
           /\ IsNone(form_data.time_submitted_hours)
           /\ IsNone(form_data.time_submitted_minutes))
          => /\ is_valid(form_result)
             /\ form_result.cleaned_data.malas_submitted = form_data.malas_submitted
             /\ IsNone(form_result.cleaned_data.time_submitted_hours)
             /\ IsNone(form_result.cleaned_data.time_submitted_minutes)

C7_Witness ==
    /\ is_valid(form_result)
    /\ form_data.malas_submitted = Some(5)
    /\ IsNone(form_data.time_submitted_hours)
    /\ IsNone(form_data.time_submitted_minutes)
    /\ IsNone(form_result.cleaned_data.time_submitted_hours)
    /\ IsNone(form_result.cleaned_data.time_submitted_minutes)

\* the rest of the submission passes its fields: a selectable practice, malas
\* blank or not negative
RestOfFormValid ==
    /\ ~IsNone(form_data.user_activity)
    /\ Val(form_data.user_activity) \in FormQueryset
    /\ IsNone(form_data.malas_submitted) \/ Val(form_data.malas_submitted) >= MinValue

\* C8: when exactly one time component is submitted with a positive value (of
\* minutes: one the field admits) and the other is blank, validation succeeds,
\* the blank component comes back as 0, and malas and the submitted component
\* come back as submitted.
C8_OtherTimeComponentZero ==
    (form_result.bound /\ RestOfFormValid)
    => /\ (/\ Positive(form_data.time_submitted_hours)
           /\ IsNone(form_data.time_submitted_minutes))
          => /\ is_valid(form_result)
             /\ form_result.cleaned_data.time_submitted_minutes = Some(0)
             /\ form_result.cleaned_data.time_submitted_hours
                    = form_data.time_submitted_hours
             /\ form_result.cleaned_data.malas_submitted = form_data.malas_submitted
       /\ (/\ Positive(form_data.time_submitted_minutes)
           /\ Val(form_data.time_submitted_minutes) <= MaxMinutes
           /\ IsNone(form_data.time_submitted_hours))
          => /\ is_valid(form_result)
             /\ form_result.cleaned_data.time_submitted_hours = Some(0)
             /\ form_result.cleaned_data.time_submitted_minutes
                    = form_data.time_submitted_minutes
             /\ form_result.cleaned_data.malas_submitted = form_data.malas_submitted

C8_Witness ==
    /\ is_valid(form_result)
    /\ IsNone(form_data.malas_submitted)
    /\ IsNone(form_data.time_submitted_hours)
    /\ form_data.time_submitted_minutes = Some(30)
    /\ form_result.cleaned_data.time_submitted_hours = Some(0)
    /\ form_result.cleaned_data.time_submitted_minutes = Some(30)
    /\ IsNone(form_result.cleaned_data.malas_submitted)

\* The form reports an error on the minutes field for every submitted minutes
\* value outside 0..59, whatever else was submitted, and is then not valid.
MinutesOutOfRangeReported ==
    (/\ form_result.bound
     /\ ~IsNone(form_data.time_submitted_minutes)
     /\ \/ Val(form_data.time_submitted_minutes) < MinValue
        \/ Val(form_data.time_submitted_minutes) > MaxMinutes)
    => /\ MinutesErrors(form_result.errors) # {}
       /\ ~is_valid(form_result)

-----------------------------------------------------------------------------
(* Properties of the tracker, under SpecTracker.                           *)


\* C5: every stored LogEntry's owner is the owner of the UserActivity it
\* references, and a save puts that owner on the row whatever owner the
\* instance carried before.
C5_OwnerIsPracticeOwner ==
    /\ \A e \in logEntries :
           /\ \E ua \in userActivities : ua.pk = e.user_activity
           /\ e.user = Some(UserActivityByPk(e.user_activity).user)
    /\ \A ua \in userActivities :
           \A supplied \in {None} \cup {Some(u) : u \in Users} :
               LogEntry_save([NewLogEntry(nextLogEntryPk) EXCEPT
                                  !.user_activity = ua.pk,
                                  !.user = supplied]).user = Some(ua.user)

C5_Witness ==
    /\ lastView.view = "logentry-edit"
    /\ lastView.status = "saved"
    /\ \E e \in logEntries :
           e.user = Some(UserActivityByPk(e.user_activity).user)

FormView == lastView.view \in {"logentry-add", "logentry-edit"}
                /\ lastView.status \in {"saved", "invalid"}

MinutesOutOfRange(data) ==
    /\ ~IsNone(data.time_submitted_minutes)
    /\ \/ Val(data.time_submitted_minutes) < MinValue
       \/ Val(data.time_submitted_minutes) > MaxMinutes

\* C9: a submission whose minutes are present and outside 0..59 is answered
\* with an error on the minutes field, also when its malas or hours are
\* positive; it is never accepted, and no stored LogEntry carries minutes
\* outside 0..59.
C9_MinutesOutOfRangeRejected ==
    /\ (FormView /\ MinutesOutOfRange(lastView.data))
       => /\ lastView.status = "invalid"
          /\ MinutesErrors(lastView.errors) # {}
    /\ \A e \in logEntries :
           \/ IsNone(e.time_submitted_minutes)
           \/ Val(e.time_submitted_minutes) \in MinValue..MaxMinutes

C9_Witness ==
    /\ FormView
    /\ lastView.data.time_submitted_minutes = Some(75)
    /\ Positive(lastView.data.malas_submitted)
    /\ ~IsNone(lastView.data.user_activity)
    /\ <<"user_activity", "invalid_choice">> \notin lastView.errors
    /\ lastView.status = "invalid"
    /\ MinutesErrors(lastView.errors) # {}
    /\ logEntries = {}

\* C10: the total stored with a log entry is its malas times 108 (0 without
\* malas), whatever practice it belongs to.
C10_StoredTotalIsMalasTimes108 ==
    \A e \in logEntries :
        e.calculated_total
            = (IF IsNone(e.malas_submitted) THEN 0 ELSE Val(e.malas_submitted))
                  * MantrasPerMala


-----------------------------------------------------------------------------
(* The dashboard's totals.                                                 *)

\* what an entry counts for a quantity: the stored value, 0 when it is absent
Counted(e, field) == IF IsNone(e[field]) THEN 0 ELSE Val(e[field])

RECURSIVE TotalOf(_, _)
TotalOf(entries, field) ==
    IF entries = {} THEN 0
    ELSE LET e == CHOOSE x \in entries : TRUE
         IN  Counted(e, field) + TotalOf(entries \ {e}, field)

EntriesOf(pk) == {e \in logEntries : e.user_activity = pk}

\* the summaries the dashboard has rendered and that still describe the ledger
RenderedSummaries ==
    {s \in context.activity_summaries :
         \E ua \in userActivities : ua.pk = s.user_activity}

\* C11: every summary the dashboard renders for a practice has total_malas =
\* the sum of the malas of the practice's entries (absent counted as 0),
\* total_mantras = total_malas * 108, and has_entries true exactly when the
\* practice has an entry; with no entry all totals are 0 and has_entries is false
C11_MalasTotals ==
    \A s \in RenderedSummaries :
        LET entries == EntriesOf(s.user_activity)
        IN  /\ s.total_malas_submitted = TotalOf(entries, "malas_submitted")
            /\ s.total_mantras = s.total_malas_submitted * 108
            /\ s.has_entries <=> entries # {}
            /\ entries = {} =>
                   /\ s.total_malas_submitted = 0
                   /\ s.total_mantras = 0
                   /\ s.total_practice_hours = 0
                   /\ s.total_practice_minutes = 0
                   /\ ~s.has_entries

\* a practice with an entry that has malas and one that has none is summarised
\* next to a practice with no entry
C11_Witness ==
    /\ \E s \in RenderedSummaries :
           /\ \E e \in EntriesOf(s.user_activity) : IsNone(e.malas_submitted)
           /\ \E e \in EntriesOf(s.user_activity) : ~IsNone(e.malas_submitted)
           /\ s.total_malas_submitted > 0
    /\ \E s \in RenderedSummaries : EntriesOf(s.user_activity) = {} /\ ~s.has_entries

RECURSIVE TotalMinutesOf(_)
TotalMinutesOf(entries) ==
    IF entries = {} THEN 0
    ELSE LET e == CHOOSE x \in entries : TRUE
         IN  Counted(e, "time_submitted_hours") * 60
                 + Counted(e, "time_submitted_minutes")
                 + TotalMinutesOf(entries \ {e})

\* C12: every summary the dashboard renders for a practice satisfies
\* total_hours * 60 + total_minutes = the sum over the practice's entries of
\* hours * 60 + minutes (absent counted as 0), with 0 <= total_minutes <= 59,
\* whatever the order in which the entries were stored
C12_TimeTotals ==
    \A s \in RenderedSummaries :
        /\ s.total_practice_hours * 60 + s.total_practice_minutes
               = TotalMinutesOf(EntriesOf(s.user_activity))
        /\ s.total_practice_hours >= 0
        /\ s.total_practice_minutes \in 0..59

\* 1 h 45 min and 0 h 20 min, stored in either order, are shown as 2 h 5 min
C12_Witness ==
    \E s \in RenderedSummaries :
        \E a, b \in EntriesOf(s.user_activity) :
            /\ a.pk > b.pk
            /\ a.time_submitted_hours = Some(1) /\ a.time_submitted_minutes = Some(45)
            /\ b.time_submitted_hours = Some(0) /\ b.time_submitted_minutes = Some(20)
            /\ EntriesOf(s.user_activity) = {a, b}
            /\ s.total_practice_hours = 2
            /\ s.total_practice_minutes = 5

-----------------------------------------------------------------------------
(* Starting to track a practice.                                           *)

RowsOf(user, definition) ==
    {ua \in userActivities : ua.user = user /\ ua.definition = Some(definition)}

AddPracticeAnswered(user, definition) ==
    /\ lastView' # lastView
    /\ lastView'.view = "practice-add"
    /\ lastView'.user = user
    /\ lastView'.data.definition = Some(definition)

\* C14: when a user asks to track a definition they already have a
\* UserActivity for (active or archived), or when the request is answered
\* 'You are already tracking', the answer is that warning and exactly one
\* UserActivity of the user for the definition exists afterwards
C14_SecondAttemptAlreadyTracked ==
    [][\A user \in Users, definition \in DefinitionIds :
          (/\ AddPracticeAnswered(user, definition)
           /\ \/ RowsOf(user, definition) # {}
              \/ lastView'.status = "warning_already_tracking") =>
              /\ lastView'.status = "warning_already_tracking"
              /\ Cardinality(RowsOf(user, definition)') = 1]_vars

\* C15: add-practice answers 'You are already tracking' only when the insert
\* was refused by the (user, definition) uniqueness constraint; an insert
\* refused for another reason (a required column without a value) is answered
\* differently
C15_AlreadyTrackedOnlyOnUniqueness ==
    lastView.view = "practice-add" =>
        /\ lastView.status = "warning_already_tracking" =>
               lastView.errors = {<<"IntegrityError", "unique">>}
        /\ <<"IntegrityError", "not_null">> \in lastView.errors =>
               lastView.status # "warning_already_tracking"

-----------------------------------------------------------------------------
(* Who may log, edit and delete what.                                      *)

InvalidChoice == <<"user_activity", "invalid_choice">>

\* a step in which LogEntryCreateView answers a form bound to a submission
CreateAnswered ==
    /\ userActivities' = userActivities
    /\ lastView'.view = "logentry-add"
    /\ lastView'.status \in {"saved", "invalid"}

\* the practices a submission may be logged against: the submitting user's
\* own and active ones
OwnActive(user) == {ua \in userActivities : ua.user = user /\ ua.is_active}

\* C16: a log entry is created only against a UserActivity that the submitting
\* user owns and that is active; a submission naming an archived practice or
\* another user's practice is rejected by form validation (invalid choice) and
\* stores no LogEntry
C16_LogOnlyAgainstOwnActivePractice ==
    [][CreateAnswered =>
          /\ (\A ua \in OwnActive(lastView'.user) :
                  Some(ua.pk) # lastView'.data.user_activity) =>
                 /\ lastView'.status = "invalid"
                 /\ InvalidChoice \in lastView'.errors
                 /\ logEntries' = logEntries
          /\ \A e \in logEntries' \ logEntries :
                 \E ua \in OwnActive(lastView'.user) :
                     /\ e.user_activity = ua.pk
                     /\ e.user = Some(ua.user)]_vars

\* the owner of an archived practice has submitted malas for it and was refused
C16_Witness ==
    /\ lastView.view = "logentry-add"
    /\ lastView.status = "invalid"
    /\ lastView.errors = {InvalidChoice}
    /\ Positive(lastView.data.malas_submitted)
    /\ \E ua \in userActivities :
           /\ Some(ua.pk) = lastView.data.user_activity
           /\ ua.user = lastView.user
           /\ ~ua.is_active
    /\ logEntries = {}
    /\ nextLogEntryPk = 1

-----------------------------------------------------------------------------
(* Archiving a practice.                                                   *)

\* a step that archives a practice
Archived(ua) ==
    /\ ua \in userActivities
    /\ ua.is_active
    /\ [ua EXCEPT !.is_active = FALSE] \in userActivities'

\* a step in which the dashboard is rendered for a user
DashboardRendered ==
    /\ userActivities' = userActivities
    /\ logEntries' = logEntries
    /\ definitions' = definitions
    /\ lastView'.view = "dashboard"
    /\ lastView'.status = "rendered"

\* C17 as claimed: archiving a practice deletes none of its entries, and the
\* dashboard rendered afterwards still has a summary for the archived practice
\* that counts them
C17_ArchivedStillSummarised ==
    [][/\ \A ua \in userActivities : Archived(ua) => logEntries' = logEntries
       /\ DashboardRendered =>
              \A ua \in userActivities :
                  (ua.user = lastView'.user /\ ~ua.is_active) =>
                      \E s \in context'.activity_summaries :
                          /\ s.user_activity = ua.pk
                          /\ s.total_malas_submitted
                                 = TotalOf(EntriesOf(ua.pk), "malas_submitted")
                          /\ s.total_practice_hours * 60 + s.total_practice_minutes
                                 = TotalMinutesOf(EntriesOf(ua.pk))]_vars

\* C17: archiving a practice deletes none of its entries; the dashboard
\* rendered for a user has a summary for each of the user's active practices
\* and for no other, so the entries of an archived practice stay stored but are
\* in no dashboard total until the practice is active again
C17_ArchivedKeptNotSummarised ==
    [][/\ \A ua \in userActivities : Archived(ua) => logEntries' = logEntries
       /\ DashboardRendered =>
              /\ {s.user_activity : s \in context'.activity_summaries}
                     = {ua.pk : ua \in OwnActive(lastView'.user)}
              /\ \A s \in context'.activity_summaries :
                     s.total_malas_submitted
                         = TotalOf(EntriesOf(s.user_activity), "malas_submitted")]_vars

\* the dashboard was rendered for a user who has one active practice and one
\* archived practice with entries: only the active one is summarised
C17_Witness ==
    /\ lastView.view = "dashboard"
    /\ context.user = lastView.user
    /\ \E ua \in userActivities :
           /\ ua.user = context.user
           /\ ~ua.is_active
           /\ \E e \in EntriesOf(ua.pk) : Positive(e.malas_submitted)
           /\ \A s \in context.activity_summaries : s.user_activity # ua.pk
    /\ \E ua \in userActivities :
           /\ ua.user = context.user
           /\ ua.is_active
           /\ \E s \in context.activity_summaries : s.user_activity = ua.pk

-----------------------------------------------------------------------------
(* Editing and deleting entries.                                           *)

\* a step in which LogEntryUpdateView or LogEntryDeleteView answers
EntryViewAnswered ==
    /\ userActivities' = userActivities
    /\ lastView'.view \in {"logentry-edit", "logentry-delete"}

\* C18: only its owner edits or deletes a LogEntry: whenever one of the two
\* views changes or removes a stored entry the requester is the entry's owner;
\* a logged-in user who owns no entry is answered 403 and an anonymous request
\* is turned away before the view's operation, both leaving every entry as it was
C18_OnlyOwnerEditsOrDeletes ==
    [][EntryViewAnswered =>
          /\ \A e \in logEntries \ logEntries' :
                 /\ e.user = Some(lastView'.user)
                 /\ lastView'.status \in {"saved", "deleted"}
          /\ (\A e \in logEntries : e.user # Some(lastView'.user)) =>
                 /\ lastView'.status = "403"
                 /\ logEntries' = logEntries
          /\ lastView'.user = Anonymous => logEntries' = logEntries]_vars

\* a logged-in user asked to edit or delete another user's entry and got 403
C18_Witness ==
    /\ lastView.view \in {"logentry-edit", "logentry-delete"}
    /\ lastView.user \in Users
    /\ lastView.status = "403"
    /\ logEntries # {}
    /\ \A e \in logEntries : e.user # Some(lastView.user) /\ e.pk = nextLogEntryPk - 1

-----------------------------------------------------------------------------
(* Deleting a practice.                                                    *)

\* the practices a step deletes
Deleted == {ua \in userActivities : \A x \in userActivities' : x.pk # ua.pk}

\* C19: every LogEntry refers to a stored UserActivity, in every reachable
\* state; deleting a UserActivity deletes every LogEntry that refers to it and
\* leaves the entries of the other practices as they were
C19_CascadeOnPracticeDelete ==
    /\ [](\A e \in logEntries : \E ua \in userActivities : ua.pk = e.user_activity)
    /\ [][Deleted # {} =>
             logEntries' = {e \in logEntries :
                               \A ua \in Deleted : e.user_activity # ua.pk}]_vars

\* a practice with entries was deleted and its entries went with it, while the
\* other practice still has all of its own
C19_Witness ==
    /\ Cardinality(userActivities) = 1
    /\ logEntries # {}
    /\ Cardinality(logEntries) < nextLogEntryPk - 1
    /\ \A e \in logEntries : \E ua \in userActivities : ua.pk = e.user_activity

-----------------------------------------------------------------------------
(* What a stored entry records.                                            *)

RecordsSomething(e) ==
    \/ Positive(e.malas_submitted)
    \/ Positive(e.time_submitted_hours)
    \/ Positive(e.time_submitted_minutes)

\* a step in which LogEntryUpdateView answers a form bound to a submission
\* that records nothing
EmptyEditAnswered ==
    /\ userActivities' = userActivities
    /\ lastView'.view = "logentry-edit"
    /\ lastView'.status \in {"saved", "invalid"}
    /\ ~RecordsSomething(lastView'.data)

\* C20: after any sequence of creations and edits through the views every
\* stored LogEntry has malas, hours or minutes strictly positive and, when it
\* has minutes, 0 <= minutes <= 59; an edit that would make an entry record
\* nothing is rejected and leaves the stored entries as they were
C20_StoredEntriesRecordSomething ==
    /\ [](\A e \in logEntries :
              /\ RecordsSomething(e)
              /\ ~IsNone(e.time_submitted_minutes) =>
                     Val(e.time_submitted_minutes) \in 0..59)
    /\ [][EmptyEditAnswered =>
             /\ lastView'.status = "invalid"
             /\ NoDataSubmitted \in lastView'.errors
             /\ logEntries' = logEntries]_vars

\* the owner of an entry submitted an edit with all three quantities 0 and was
\* refused; the entry still records what it did
C20_Witness ==
    /\ lastView.view = "logentry-edit"
    /\ lastView.status = "invalid"
    /\ lastView.errors = {NoDataSubmitted}
    /\ lastView.data.malas_submitted = Some(0)
    /\ \E e \in logEntries :
           /\ e.user = Some(lastView.user)
           /\ RecordsSomething(e)
           /\ e.time_submitted_minutes = Some(0)

-----------------------------------------------------------------------------
(* What removes a practice.                                                *)

\* a step in which a view answers a request
ViewAnswered == lastView' # lastView \/ context' # context

\* a step that flips the is_active flag of this practice
Flipped(ua) ==
    /\ ua \in userActivities
    /\ [ua EXCEPT !.is_active = ~ua.is_active] \in userActivities'

\* the definitions a step deletes
DeletedDefinitions == definitions \ definitions'

\* no view removes a practice, and flipping is_active changes nothing else
NoViewDeletesFlipIsOnlyAFlip ==
    /\ ViewAnswered => userActivities' = userActivities
    /\ \A ua \in userActivities :
           Flipped(ua) =>
               /\ userActivities' = (userActivities \ {ua})
                      \cup {[ua EXCEPT !.is_active = ~ua.is_active]}
               /\ logEntries' = logEntries
               /\ definitions' = definitions

\* C21 as claimed: no view removes a UserActivity, flipping is_active changes
\* nothing else, and deleting an ActivityDefinition removes the UserActivity
\* rows that refer to it together with their LogEntries
C21_DefinitionDeleteCascades ==
    [][/\ NoViewDeletesFlipIsOnlyAFlip
       /\ \A d \in DeletedDefinitions :
              \A ua \in userActivities :
                  ua.definition = Some(d) =>
                      /\ \A x \in userActivities' : x.pk # ua.pk
                      /\ \A e \in logEntries' : e.user_activity # ua.pk]_vars

\* C21: no view removes a UserActivity and flipping is_active changes nothing
\* else; deleting an ActivityDefinition removes no UserActivity and no
\* LogEntry: the rows that referred to it stay, with no definition
C21_DefinitionDeleteKeepsPractice ==
    [][/\ NoViewDeletesFlipIsOnlyAFlip
       /\ DeletedDefinitions # {} =>
              /\ userActivities' =
                     {IF \E d \in DeletedDefinitions : ua.definition = Some(d)
                      THEN [ua EXCEPT !.definition = None] ELSE ua :
                          ua \in userActivities}
              /\ logEntries' = logEntries]_vars

\* the definition of a practice with entries was deleted: the practice is
\* still stored, without a definition, and so are its entries
C21_Witness ==
    /\ definitions # DefinitionIds
    /\ \E ua \in userActivities :
           /\ IsNone(ua.definition)
           /\ EntriesOf(ua.pk) # {}
    /\ Cardinality(logEntries) = nextLogEntryPk - 1

-----------------------------------------------------------------------------
(* Two viewers.                                                            *)

OwnedPractices(user) == {ua \in userActivities : ua.user = user}
OwnedEntries(user) ==
    {e \in logEntries :
         \/ e.user = Some(user)
         \/ \E ua \in OwnedPractices(user) : ua.pk = e.user_activity}

\* a step in which a request of this user is handled: the view answers the
\* user, or one of the user's add-practice requests passes its check
RequestOf(user) ==
    \/ \E d \in DefinitionIds : requests'[<<user, d>>] # requests[<<user, d>>]
    \/ requests' = requests /\ lastView'.user = user

\* what the user is shown consists of the user's own data only
ShownOwnDataOnly(user) ==
    /\ \A s \in DashboardView_get_context_data(user).activity_summaries :
           /\ \E ua \in OwnedPractices(user) : ua.pk = s.user_activity
           /\ s.total_malas_submitted
                  = TotalOf({e \in OwnedEntries(user) : e.user_activity = s.user_activity},
                            "malas_submitted")
           /\ s.total_practice_hours * 60 + s.total_practice_minutes
                  = TotalMinutesOf({e \in OwnedEntries(user) :
                                        e.user_activity = s.user_activity})
    /\ LogEntryHistoryView_get_queryset(user) \subseteq OwnedEntries(user)
    /\ \A e \in OwnedEntries(user) :
           /\ e.user = Some(user)
           /\ \E ua \in OwnedPractices(user) : ua.pk = e.user_activity

\* C22: for two distinct users A and B, no request of A (add practice, create,
\* edit or delete a log entry, view the history) creates, changes or deletes a
\* UserActivity or LogEntry of B; B's dashboard summaries and history hold
\* only B's data and are after A's request what they were before it
C22_ViewersIndependent ==
    /\ [](\A B \in Users : ShownOwnDataOnly(B))
    /\ [][\A A \in Users, B \in Users :
             (A # B /\ RequestOf(A)) =>
                 /\ OwnedPractices(B)' = OwnedPractices(B)
                 /\ OwnedEntries(B)' = OwnedEntries(B)
                 /\ LogEntryHistoryView_get_queryset(B)' = LogEntryHistoryView_get_queryset(B)
                 /\ DashboardView_get_context_data(B)' = DashboardView_get_context_data(B)]_vars

\* while one user has an entry, the other was refused an edit or a deletion
\* of it, or was refused logging against the first user's practice
C22_Witness ==
    \E A \in Users, B \in Users :
        /\ A # B
        /\ lastView.user = A
        /\ \/ lastView.view \in {"logentry-edit", "logentry-delete"} /\ lastView.status = "403"
           \/ /\ lastView.view = "logentry-add"
              /\ lastView.status = "invalid"
              /\ \E ua \in OwnedPractices(B) : lastView.data.user_activity = Some(ua.pk)
        /\ OwnedEntries(B) # {}
        /\ DashboardView_get_context_data(B).activity_summaries # {}

-----------------------------------------------------------------------------
(* What the dashboard offers and what add-practice accepts.                *)

\* C23: only active definitions are offered by the dashboard's practice
\* select form, and when add-practice answers a user's request for a
\* definition the form offers that user in the state the request is handled
\* in, the answer is success and a UserActivity of the user for the
\* definition was created; this covers users with an archived UserActivity
C23_OfferedIsAccepted ==
    /\ [](\A user \in Users :
             \A d \in DashboardView_practice_select_form_queryset(user) :
                 ActivityDefinition(d).is_active)
    /\ [][\A user \in Users, definition \in DefinitionIds :
             (/\ AddPracticeAnswered(user, definition)
              /\ definition \in DashboardView_practice_select_form_queryset(user)) =>
                 /\ lastView'.status = "success"
                 /\ Cardinality(RowsOf(user, definition)')
                        = Cardinality(RowsOf(user, definition)) + 1]_vars

====
